---- MODULE Spec2Model ----
(***************************************************************************)
(* Daily priority planning engine of business_ai_copilot:                  *)
(*   CalendarManagerTool._calculate_free_blocks  (free-block calculation)  *)
(*   PriorityPlannerTool._score_tasks            (task scorer)             *)
(*   PriorityPlannerTool._allocate_time_blocks   (block allocator)         *)
(*   PriorityPlannerTool._generate_suggestions   (suggestion generator)    *)
(*   PriorityPlannerTool._execute                (plan assembler)          *)
(*                                                                         *)
(* Units.  A time of day is an integer number of ticks since midnight,     *)
(* TicksPerMinute ticks to the minute, so that the sub-minute part that    *)
(* datetime.now() leaves in work_start/work_end (replace() resets hour,    *)
(* minute and second only) is representable.  A date is an integer day     *)
(* number.  A priority score is held in tenths (98.0 is 980): the four     *)
(* sub-scores are whole numbers, so 0.4u + 0.3i + 0.2d + 0.1c has exactly  *)
(* one decimal and round(.., 1) returns it.                                *)
(***************************************************************************)
EXTENDS Integers, Sequences, FiniteSets, TLC

VARIABLES
    clock,             \* the date datetime.now() returns at this moment
    now_us,            \* sub-minute part of the date the calendar is queried with
    events,            \* the day's events, as the calendar source returns them
    tasks,             \* the open tasks, as the task source returns them
    user_preferences,  \* the preferences argument of the planner
    block_order,       \* the order the free blocks are handed to the planner in
    calendar_data,     \* result of the calendar tool
    free_blocks,       \* the free_blocks argument of the planner
    score_today,       \* today as read by _score_tasks
    scored_tasks,      \* result of _score_tasks
    allocated_tasks,   \* the seen-set of _allocate_time_blocks
    schedule,          \* result of _allocate_time_blocks
    suggest_today,     \* today as read by _generate_suggestions
    suggestions,       \* result of _generate_suggestions
    result,            \* what PriorityPlannerTool.execute returns
    pc,                \* position of the run
    run,               \* number of the planning run
    previous,          \* result and dates of the run before this one
    tool,              \* the tool BaseTool.execute is called on
    max_retries,       \* max_retries of the decorator around its _execute
    wall_clock,        \* time.time(), in half seconds
    advances,          \* number of times the wall clock moved between calls
    cache,             \* self.cache: cache key -> (result, cached_time)
    calls,             \* number of execute calls made so far
    kwargs,            \* the parameters of the execute call in progress
    exec_pc,           \* position inside execute
    attempt,           \* loop variable of the retry wrapper
    attempt_log,       \* what the wrapper did during this call, in order
    response,          \* what execute returned to its caller
    workflow,          \* the compiled graph AgentOrchestrator.run picked
    node,              \* the node of the graph that runs next
    state_passing,     \* whether a node's state shares its lists with the graph's channels
    tool_errors,       \* AgentState.tool_errors
    tool_outputs,      \* AgentState.tool_outputs: tool name -> success of its result
    priority_plan,     \* AgentState.priority_plan
    final_response,    \* AgentState.final_response
    should_end         \* AgentState.should_end

toolvars == << tool, max_retries, wall_clock, advances, cache, calls, kwargs,
               exec_pc, attempt, attempt_log, response >>

flowvars == << workflow, node, state_passing, tool_errors, tool_outputs,
               priority_plan, final_response, should_end >>

vars == << clock, now_us, events, tasks, user_preferences, block_order,
           calendar_data, free_blocks, score_today, scored_tasks,
           allocated_tasks, schedule, suggest_today, suggestions, result,
           pc, run, previous, toolvars, flowvars >>

\* ---------------------------------------------------------------- bounds
MaxEvents == 2
MaxTasks == 2
MaxTick == 1
MaxRuns == 2
TicksPerMinute == 2

\* ------------------------------------------------------ program constants
WorkStartHour == 9
WorkEndHour == 18
MinFreeBlockMinutes == 15
MinAllocBlockMinutes == 30
DeepWorkMinutes == 90
NoonHour == 12
HighPriorityScore == 80
TopN == 10
DefaultEstimatedHalfHours == 2
HeavyMeetingMinutes == 180

\* ------------------------------------------------------------ time helpers
Min2(a, b) == IF a < b THEN a ELSE b
Max2(a, b) == IF a > b THEN a ELSE b

\* a whole-minute time of day hh:mm, in ticks
At(hh, mm) == (hh * 60 + mm) * TicksPerMinute

\* datetime.hour of a time of day
Hour(t) == (t \div TicksPerMinute) \div 60

\* int((b - a).total_seconds() / 60) for b >= a : whole minutes, truncated
GapMinutes(a, b) == (b - a) \div TicksPerMinute

\* optional dictionary values: key missing, None, or a value
Absent == [kind |-> "absent"]
Null == [kind |-> "null"]
Val(v) == [kind |-> "val", v |-> v]

\* ------------------------------------------------------- calendar events
Event(id, s, e) ==
    [id |-> id, start_time |-> s, end_time |-> e,
     duration_minutes |-> (e - s) \div TicksPerMinute]

\* the three events of the built-in weekday calendar
MockEvents ==
    << Event("evt_001", At(9, 0), At(9, 15)),
       Event("evt_002", At(14, 0), At(15, 0)),
       Event("evt_003", At(16, 0), At(16, 30)) >>

\* events the calendar source may hand over; evt_bad ends before it starts
EventPool ==
    { Event("evt_001", At(9, 0), At(9, 15)),
      Event("evt_002", At(14, 0), At(15, 0)),
      Event("evt_003", At(16, 0), At(16, 30)),
      Event("evt_004", At(9, 10), At(10, 0)),
      Event("evt_005", At(9, 35), At(16, 15)),
      Event("evt_006", At(8, 0), At(8, 40)),
      Event("evt_007", At(18, 20), At(19, 0)),
      Event("evt_008", At(10, 0), At(18, 0)),
      Event("evt_009", At(11, 30), At(13, 0)),
      Event("evt_012", At(13, 0), At(13, 0)),
      Event("evt_bad", At(11, 0), At(10, 30)) }

\* the structural violation: an event that ends before it starts
EndsBeforeStart(e) == e.end_time < e.start_time

\* ----------------------------------------------------- free-block calculation
\* sorted(events, key = start_time): stable insertion into a sorted prefix
RECURSIVE InsertByStart(_, _)
InsertByStart(sorted, e) ==
    IF sorted = << >> THEN << e >>
    ELSE IF sorted[Len(sorted)].start_time <= e.start_time
         THEN Append(sorted, e)
         ELSE Append(InsertByStart(SubSeq(sorted, 1, Len(sorted) - 1), e),
                     sorted[Len(sorted)])

RECURSIVE SortEventsByStart(_)
SortEventsByStart(evs) ==
    IF evs = << >> THEN << >>
    ELSE InsertByStart(SortEventsByStart(SubSeq(evs, 1, Len(evs) - 1)),
                       evs[Len(evs)])

FreeBlock(s, e) ==
    [start_time |-> s, end_time |-> e, duration_minutes |-> GapMinutes(s, e)]

\* a gap [from, to) becomes a block only if it is non-empty and 15+ minutes
GapBlocks(from, to) ==
    IF from < to /\ GapMinutes(from, to) >= MinFreeBlockMinutes
    THEN << FreeBlock(from, to) >>
    ELSE << >>

\* the walk with the cursor set to event_end instead of max(cursor, event_end)
RECURSIVE WalkEventsNoMax(_, _, _, _)
WalkEventsNoMax(evs, i, current_time, blocks) ==
    IF i > Len(evs) THEN << current_time, blocks >>
    ELSE WalkEventsNoMax(evs, i + 1, evs[i].end_time,
                         blocks \o GapBlocks(current_time, evs[i].start_time))

\* the for-loop over the sorted events: returns <<cursor, blocks>>
RECURSIVE WalkEvents(_, _, _, _)
WalkEvents(evs, i, current_time, blocks) ==
    IF i > Len(evs) THEN << current_time, blocks >>
    ELSE WalkEvents(evs, i + 1,
                    Max2(current_time, evs[i].end_time),
                    blocks \o GapBlocks(current_time, evs[i].start_time))

\* the calculation without the gap after the last meeting
CalculateFreeBlocksNoTrailing(evs, us) ==
    LET work_start == At(WorkStartHour, 0) + us
    IN  WalkEvents(SortEventsByStart(evs), 1, work_start, << >>)[2]

\* us is the sub-minute part of the date the calendar is queried with
CalculateFreeBlocks(evs, us) ==
    LET work_start == At(WorkStartHour, 0) + us
        work_end == At(WorkEndHour, 0) + us
        walked == WalkEvents(SortEventsByStart(evs), 1, work_start, << >>)
    IN  walked[2] \o GapBlocks(walked[1], work_end)

\* ------------------------------------------------------------------ tasks
Task(id, project, status, priority, due, hours, points, labels, blocked) ==
    [id |-> id, title |-> id, project |-> project, status |-> status,
     priority |-> priority, due_date |-> due,
     estimated_hours |-> hours, story_points |-> points,
     labels |-> labels, blocked |-> blocked]

\* due-date strings: 'YYYY-MM-DD', 'YYYY-MM-DDTHH:MM:SS', or not a date at all
DueDate(day) == [kind |-> "date", day |-> day]
DueDateTime(day) == [kind |-> "datetime", day |-> day]
Garbage == [kind |-> "garbage"]

\* estimated_hours is held in half hours (1.0 hour is 2)
Hours(h2) == Val(h2)

\* ------------------------------------------------------------ task scorer
\* priority_map.get(task.get('priority', 'medium'), 50)
PriorityBase(priority) ==
    CASE priority = "critical" -> 100
      [] priority = "high" -> 75
      [] priority = "medium" -> 50
      [] priority = "low" -> 25
      [] priority = "absent" -> 50
      [] OTHER -> 50

\* task.get('labels', []): a missing key reads as the empty list
LabelsOf(task) == IF task.labels.kind = "val" THEN task.labels.v ELSE {}

\* 'x' in None raises TypeError
UrgencyRaises(task) == task.labels.kind = "null"

CalculateUrgency(task) ==
    LET base == PriorityBase(task.priority)
        boosted == IF task.blocked THEN Min2(100, base + 15) ELSE base
    IN  IF "critical-path" \in LabelsOf(task)
        THEN Min2(100, boosted + 10) ELSE boosted

\* None >= 5 raises TypeError, and so does 'blocker' in None
ImpactRaises(task) ==
    task.story_points.kind = "null" \/ task.labels.kind = "null"

\* task.get('story_points', 0)
StoryPointsOf(task) ==
    IF task.story_points.kind = "val" THEN task.story_points.v ELSE 0

\* the impact sum returned without the cap at 100
CalculateImpactUncapped(task) ==
    LET s1 == 50 + (IF task.project = "Phoenix" THEN 20 ELSE 0)
        sp == StoryPointsOf(task)
        s2 == s1 + (IF sp >= 5 THEN 15 ELSE IF sp >= 3 THEN 10 ELSE 0)
        s3 == s2 + (IF "blocker" \in LabelsOf(task) THEN 20 ELSE 0)
    IN  s3 + (IF "external-dependency" \in LabelsOf(task) THEN 10 ELSE 0)

CalculateImpact(task) ==
    LET s1 == 50 + (IF task.project = "Phoenix" THEN 20 ELSE 0)
        sp == StoryPointsOf(task)
        s2 == s1 + (IF sp >= 5 THEN 15 ELSE IF sp >= 3 THEN 10 ELSE 0)
        s3 == s2 + (IF "blocker" \in LabelsOf(task) THEN 20 ELSE 0)
        s4 == s3 + (IF "external-dependency" \in LabelsOf(task) THEN 10 ELSE 0)
    IN  Min2(100, s4)

\* datetime.fromisoformat(due).date(): the day of a date or datetime string;
\* anything else raises ValueError/TypeError, which the scorer catches
Parses(due) == due.kind \in {"date", "datetime"}

\* the mapping without the floor of 30 on its last branch
DeadlineOfDaysNoFloor(days_until_due) ==
    IF days_until_due < 0 THEN 100
    ELSE IF days_until_due = 0 THEN 100
    ELSE IF days_until_due = 1 THEN 90
    ELSE IF days_until_due <= 3 THEN 75
    ELSE IF days_until_due <= 7 THEN 60
    ELSE 100 - (days_until_due * 3)

DeadlineOfDays(days_until_due) ==
    IF days_until_due < 0 THEN 100
    ELSE IF days_until_due = 0 THEN 100
    ELSE IF days_until_due = 1 THEN 90
    ELSE IF days_until_due <= 3 THEN 75
    ELSE IF days_until_due <= 7 THEN 60
    ELSE Max2(30, 100 - (days_until_due * 3))

CalculateDeadlineScore(task, today) ==
    IF task.due_date.kind \in {"absent", "null"} THEN 50
    ELSE IF ~Parses(task.due_date) THEN 50
    ELSE DeadlineOfDays(task.due_date.day - today)

CalculateContext(task) ==
    LET s1 == 50 + (IF task.status = "in_progress" THEN 30 ELSE 0)
        s2 == s1 + (IF task.blocked THEN 20 ELSE 0)
    IN  Min2(100, s2)

\* the composite with the weights of urgency and impact interchanged
PriorityScoreSwapped(urgency, impact, deadline_score, context) ==
    3 * urgency + 4 * impact + 2 * deadline_score + 1 * context

\* round(0.40 u + 0.30 i + 0.20 d + 0.10 c, 1), in tenths
PriorityScore(urgency, impact, deadline_score, context) ==
    4 * urgency + 3 * impact + 2 * deadline_score + 1 * context

ScoreRaises(task) == UrgencyRaises(task) \/ ImpactRaises(task)

\* the body of the scoring loop: task.copy() plus the score fields
ScoreTask(task, today) ==
    LET urgency == CalculateUrgency(task)
        impact == CalculateImpact(task)
        deadline_score == CalculateDeadlineScore(task, today)
        context == CalculateContext(task)
    IN  [priority_score |-> PriorityScore(urgency, impact, deadline_score, context),
         urgency |-> urgency, impact |-> impact,
         deadline_score |-> deadline_score] @@ task

\* the sort without reverse = True: ascending
RECURSIVE InsertByScoreAscending(_, _)
InsertByScoreAscending(sorted, t) ==
    IF sorted = << >> THEN << t >>
    ELSE IF sorted[Len(sorted)].priority_score <= t.priority_score
         THEN Append(sorted, t)
         ELSE Append(InsertByScoreAscending(SubSeq(sorted, 1, Len(sorted) - 1),
                                            t),
                     sorted[Len(sorted)])

\* a descending sort that puts a task before the earlier tasks of its score
RECURSIVE InsertByScoreUnstable(_, _)
InsertByScoreUnstable(sorted, t) ==
    IF sorted = << >> THEN << t >>
    ELSE IF sorted[Len(sorted)].priority_score > t.priority_score
         THEN Append(sorted, t)
         ELSE Append(InsertByScoreUnstable(SubSeq(sorted, 1, Len(sorted) - 1),
                                           t),
                     sorted[Len(sorted)])

\* scored_tasks.sort(key = priority_score, reverse = True): stable, descending
RECURSIVE InsertByScore(_, _)
InsertByScore(sorted, t) ==
    IF sorted = << >> THEN << t >>
    ELSE IF sorted[Len(sorted)].priority_score >= t.priority_score
         THEN Append(sorted, t)
         ELSE Append(InsertByScore(SubSeq(sorted, 1, Len(sorted) - 1), t),
                     sorted[Len(sorted)])

RECURSIVE SortByScore(_)
SortByScore(ts) ==
    IF ts = << >> THEN << >>
    ELSE InsertByScore(SortByScore(SubSeq(ts, 1, Len(ts) - 1)), ts[Len(ts)])

ScoreTasks(ts, today) ==
    SortByScore([i \in 1..Len(ts) |-> ScoreTask(ts[i], today)])

AnyScoreRaises(ts) == \E i \in 1..Len(ts) : ScoreRaises(ts[i])

\* a score in tenths against the high-priority threshold
IsHighPriority(t) == t.priority_score >= HighPriorityScore * 10

\* --------------------------------------------------------- block allocator
\* the preference read with False as the default
PreferMorningFocusDefaultOff(preferences) == preferences = "focus_on"

\* preferences = preferences or {}; preferences.get('morning_focus', True)
\* user_preferences is None ("null"), {} ("empty"), or sets morning_focus
PreferMorningFocus(preferences) ==
    LET prefs == IF preferences = "null" THEN "empty" ELSE preferences
    IN  IF prefs = "empty" THEN TRUE ELSE prefs = "focus_on"

\* the sort placing a block before the blocks of equal duration
RECURSIVE InsertByDurationUnstable(_, _)
InsertByDurationUnstable(sorted, b) ==
    IF sorted = << >> THEN << b >>
    ELSE IF sorted[Len(sorted)].duration_minutes > b.duration_minutes
         THEN Append(sorted, b)
         ELSE Append(InsertByDurationUnstable(
                         SubSeq(sorted, 1, Len(sorted) - 1), b),
                     sorted[Len(sorted)])

\* sorted(free_blocks, key = duration_minutes, reverse = True): stable
RECURSIVE InsertByDuration(_, _)
InsertByDuration(sorted, b) ==
    IF sorted = << >> THEN << b >>
    ELSE IF sorted[Len(sorted)].duration_minutes >= b.duration_minutes
         THEN Append(sorted, b)
         ELSE Append(InsertByDuration(SubSeq(sorted, 1, Len(sorted) - 1), b),
                     sorted[Len(sorted)])

RECURSIVE SortBlocksByDuration(_)
SortBlocksByDuration(bs) ==
    IF bs = << >> THEN << >>
    ELSE InsertByDuration(SortBlocksByDuration(SubSeq(bs, 1, Len(bs) - 1)),
                          bs[Len(bs)])

\* block_start.hour < 12
IsMorning(block) == Hour(block.start_time) < NoonHour

\* None * 60 raises TypeError
DurationRaises(task) == task.estimated_hours.kind = "null"

\* task.get('estimated_hours', 1.0) * 60, in minutes
TaskDuration(task) ==
    (IF task.estimated_hours.kind = "val" THEN task.estimated_hours.v
     ELSE DefaultEstimatedHalfHours) * 30

\* the fit test refusing a task as long as the block
FitsStrict(task_duration, block_duration) == task_duration < block_duration

\* the fit test with the comparison turned round
FitsReversed(task_duration, block_duration) == task_duration >= block_duration

Fits(task_duration, block_duration) == task_duration <= block_duration

\* the block_type of the morning-focus branch
MorningBlockType(block_duration) ==
    IF block_duration >= DeepWorkMinutes THEN "deep_work" ELSE "focused_task"

\* the block_type of the branch taken outside the morning rule
OtherBlockType(block_duration) == "focused_task"

ScheduleItem(task, block, block_type) ==
    [task_id |-> task.id, task_title |-> task.title,
     priority_score |-> task.priority_score,
     start_time |-> block.start_time,
     end_time |-> block.start_time + TaskDuration(task) * TicksPerMinute,
     duration_minutes |-> TaskDuration(task),
     block_type |-> block_type]

\* the inner loop over the ranked tasks for one block, from task j on:
\* the first task that is placed, "none", or "raise"
RECURSIVE FindTask(_, _, _, _, _)
FindTask(ts, j, block, allocated, prefer_morning_focus) ==
    IF j > Len(ts) THEN [kind |-> "none"]
    ELSE IF ts[j].id \in allocated
    THEN FindTask(ts, j + 1, block, allocated, prefer_morning_focus)
    ELSE IF DurationRaises(ts[j]) THEN [kind |-> "raise"]
    ELSE IF ~Fits(TaskDuration(ts[j]), block.duration_minutes)
    THEN FindTask(ts, j + 1, block, allocated, prefer_morning_focus)
    ELSE IF prefer_morning_focus /\ IsMorning(block) /\ IsHighPriority(ts[j])
    THEN [kind |-> "item",
          item |-> ScheduleItem(ts[j], block,
                                MorningBlockType(block.duration_minutes))]
    ELSE IF ~IsMorning(block) \/ ~prefer_morning_focus
    THEN [kind |-> "item",
          item |-> ScheduleItem(ts[j], block,
                                OtherBlockType(block.duration_minutes))]
    ELSE FindTask(ts, j + 1, block, allocated, prefer_morning_focus)

\* the seen-set left as it was
MarkNothing(allocated, id) == allocated

\* allocated_tasks.add(task['id'])
MarkAllocated(allocated, id) == allocated \cup {id}

\* the outer loop over the sorted blocks, from block i on
RECURSIVE AllocateLoop(_, _, _, _, _, _)
AllocateLoop(blocks, i, ts, schedule_, allocated, prefer_morning_focus) ==
    IF i > Len(blocks)
    THEN [raised |-> FALSE, schedule |-> schedule_, allocated |-> allocated]
    ELSE IF blocks[i].duration_minutes < MinAllocBlockMinutes
    THEN AllocateLoop(blocks, i + 1, ts, schedule_, allocated,
                      prefer_morning_focus)
    ELSE LET found == FindTask(ts, 1, blocks[i], allocated,
                               prefer_morning_focus)
         IN  IF found.kind = "raise"
             THEN [raised |-> TRUE, schedule |-> schedule_,
                   allocated |-> allocated]
             ELSE IF found.kind = "item"
             THEN AllocateLoop(blocks, i + 1, ts,
                               Append(schedule_, found.item),
                               MarkAllocated(allocated, found.item.task_id),
                               prefer_morning_focus)
             ELSE AllocateLoop(blocks, i + 1, ts, schedule_, allocated,
                               prefer_morning_focus)

\* the seen-set kept from the allocation before
StaleAllocated == allocated_tasks

\* allocated_tasks = set(): every allocation starts from an empty seen-set
InitialAllocated == {}

AllocateTimeBlocks(ts, blocks, preferences) ==
    AllocateLoop(SortBlocksByDuration(blocks), 1, ts, << >>,
                 InitialAllocated, PreferMorningFocus(preferences))

\* ------------------------------------------------------ suggestion generator
RECURSIVE SumDurations(_)
SumDurations(xs) ==
    IF xs = << >> THEN 0
    ELSE xs[1].duration_minutes + SumDurations(Tail(xs))

\* datetime.now().date().isoformat()
IsoDate(day) == DueDate(day)

Suggestion(kind, count) == [kind |-> kind, count |-> count]

\* the unscheduled count taken over the ten top-ranked tasks only
UnscheduledHighPriorityTop(ts, schedule_) ==
    LET scheduled_ids == {schedule_[k].task_id : k \in 1..Len(schedule_)}
    IN  Cardinality({k \in 1..Min2(TopN, Len(ts)) :
            IsHighPriority(ts[k]) /\ ts[k].id \notin scheduled_ids})

\* len(unscheduled_high_pri): high-priority tasks without a schedule item
UnscheduledHighPriority(ts, schedule_) ==
    LET scheduled_ids == {schedule_[k].task_id : k \in 1..Len(schedule_)}
    IN  Cardinality({k \in 1..Len(ts) :
            IsHighPriority(ts[k]) /\ ts[k].id \notin scheduled_ids})

GenerateSuggestions(ts, evs, schedule_, today) ==
    LET CriticalBlocked(t) == t.blocked /\ t.priority = "critical"
        DueToday(t) == t.due_date = IsoDate(today)
        critical_blocked ==
            Cardinality({k \in 1..Len(ts) : CriticalBlocked(ts[k])})
        due_today == Cardinality({k \in 1..Len(ts) : DueToday(ts[k])})
        total_meeting_time == SumDurations(evs)
        unscheduled_high_pri == UnscheduledHighPriority(ts, schedule_)
    IN  (IF critical_blocked > 0
         THEN << Suggestion("critical_blocked", critical_blocked) >>
         ELSE << >>)
        \o (IF due_today > 0
            THEN << Suggestion("due_today", due_today) >> ELSE << >>)
        \o (IF total_meeting_time > HeavyMeetingMinutes
            THEN << Suggestion("heavy_meeting_day", total_meeting_time) >>
            ELSE << >>)
        \o (IF unscheduled_high_pri > 0
            THEN << Suggestion("unscheduled_high_priority",
                               unscheduled_high_pri) >>
            ELSE << >>)

\* ------------------------------------------------------------ plan assembler
\* the plan with high_priority_count taken over the truncated list
AssemblePlanTopCount(ts, scored, schedule_, suggestions_, evs, blocks) ==
    [success |-> TRUE,
     prioritized_tasks |-> SubSeq(scored, 1, Min2(TopN, Len(scored))),
     schedule |-> schedule_,
     suggestions |-> suggestions_,
     summary |-> [total_tasks |-> Len(ts),
                  high_priority_count |->
                      Cardinality({k \in 1..Min2(TopN, Len(scored)) :
                                      IsHighPriority(scored[k])}),
                  scheduled_tasks |-> Len(schedule_),
                  total_meeting_time |-> SumDurations(evs),
                  total_free_time |-> SumDurations(blocks)]]

AssemblePlan(ts, scored, schedule_, suggestions_, evs, blocks) ==
    [success |-> TRUE,
     prioritized_tasks |-> SubSeq(scored, 1, Min2(TopN, Len(scored))),
     schedule |-> schedule_,
     suggestions |-> suggestions_,
     summary |-> [total_tasks |-> Len(ts),
                  high_priority_count |->
                      Cardinality({k \in 1..Len(scored) :
                                      IsHighPriority(scored[k])}),
                  scheduled_tasks |-> Len(schedule_),
                  total_meeting_time |-> SumDurations(evs),
                  total_free_time |-> SumDurations(blocks)]]

\* BaseTool.execute turns an exception of _execute into a failure result
FailureResult(error_type) == [success |-> FALSE, error_type |-> error_type]

\* ------------------------------------------------------------------ inputs
RECURSIVE SeqsUpTo(_, _)
SeqsUpTo(S, n) ==
    IF n = 0 THEN { << >> }
    ELSE LET shorter == SeqsUpTo(S, n - 1)
         IN  shorter \cup {Append(q, x) : q \in shorter, x \in S}

RECURSIVE Reverse(_)
Reverse(xs) ==
    IF xs = << >> THEN << >> ELSE Append(Reverse(Tail(xs)), xs[1])

\* tasks in the shape of the built-in task list, with the optional fields
\* present, missing or null
TaskVendor ==
    Task("PHOE-145", "Phoenix", "in_progress", "critical", DueDate(1),
         Hours(2), Val(3), Val({"blocker", "external-dependency"}), TRUE)
TaskApiSpec ==
    Task("PHOE-178", "Phoenix", "todo", "high", DueDate(0),
         Hours(4), Val(5), Val({"review", "api", "critical-path"}), FALSE)
TaskRelease ==
    Task("PHOE-150", "Phoenix", "todo", "critical", DueDateTime(0),
         Absent, Val(5), Absent, FALSE)
TaskMockups ==
    Task("ATLS-245", "Atlas", "in_progress", "medium", DueDate(7),
         Hours(2), Val(2), Val({"design", "approval"}), FALSE)
TaskNotes ==
    Task("ATLS-250", "Atlas", "todo", "absent", Garbage,
         Hours(1), Absent, Val({}), FALSE)
TaskDocs ==
    Task("PHOE-201", "Phoenix", "todo", "low", DueDate(7),
         Hours(6), Val(5), Val({"documentation"}), FALSE)
TaskUnsized ==
    Task("ATLS-260", "Atlas", "todo", "high", Absent,
         Null, Val(3), Val({}), TRUE)

TaskPool ==
    { TaskVendor, TaskApiSpec, TaskRelease, TaskMockups, TaskNotes, TaskDocs,
      TaskUnsized }

\* one task record over every combination of the fields the scorer reads
TaskSpace ==
    { Task("PHOE-001", project, status, priority, due_date, estimated_hours,
           story_points, labels, blocked) :
        project \in {"Phoenix", "Atlas"},
        status \in {"todo", "in_progress"},
        priority \in {"critical", "high", "medium", "low", "urgent", "absent"},
        due_date \in {Absent, Garbage, DueDateTime(0)}
                     \cup {DueDate(d) : d \in {-1, 0, 1, 3, 7, 8, 24}},
        estimated_hours \in {Absent, Hours(2)},
        story_points \in {Absent, Null, Val(2), Val(3), Val(5)},
        labels \in {Absent, Null}
                   \cup {Val(S) : S \in SUBSET {"critical-path", "blocker",
                                                "external-dependency"}},
        blocked \in BOOLEAN }

\* the days of the planner runs: the built-in calendar, a lone 60-minute
\* morning block, a 20-minute and a 105-minute block, two equal blocks, none
PlanEventLists ==
    { MockEvents,
      << Event("evt_008", At(10, 0), At(18, 0)) >>,
      << Event("evt_001", At(9, 0), At(9, 15)),
         Event("evt_005", At(9, 35), At(16, 15)) >>,
      << Event("evt_010", At(10, 0), At(11, 0)),
         Event("evt_011", At(12, 0), At(18, 0)) >>,
      << >> }

Preferences == {"null", "empty", "focus_on", "focus_off"}

NoResult == [success |-> FALSE, error_type |-> "pending"]
NoRun == [run |-> 0]

\* no tool call: the tool layer at rest
NoResponse == [success |-> FALSE, error |-> "none", cached |-> FALSE, cache_age |-> 0, value |-> 0]

\* no workflow: the state create_initial_state builds, no graph picked
FlowIdle ==
    /\ workflow = "none"
    /\ node = "idle"
    /\ state_passing = "shared"
    /\ tool_errors = << >>
    /\ tool_outputs = [t \in {} |-> TRUE]
    /\ priority_plan = "None"
    /\ final_response = "None"
    /\ should_end = FALSE

ToolIdle ==
    /\ tool = "create_priority_plan"
    /\ max_retries = 1
    /\ wall_clock = 0
    /\ advances = 0
    /\ cache = [k \in {} |-> NoResponse]
    /\ calls = 0
    /\ kwargs = "none"
    /\ exec_pc = "idle"
    /\ attempt = 0
    /\ attempt_log = << >>
    /\ response = NoResponse

PlannerInit(Es, Ts, Ps, Os, Us) ==
    /\ clock = 0
    /\ now_us \in Us
    /\ events \in Es
    /\ tasks \in Ts
    /\ user_preferences \in Ps
    /\ block_order \in Os
    /\ calendar_data = [success |-> FALSE, events |-> << >>,
                        free_blocks |-> << >>]
    /\ free_blocks = << >>
    /\ score_today = -1
    /\ scored_tasks = << >>
    /\ allocated_tasks = {}
    /\ schedule = << >>
    /\ suggest_today = -1
    /\ suggestions = << >>
    /\ result = NoResult
    /\ pc = "calendar"
    /\ run = 1
    /\ previous = NoRun

InitWith(Es, Ts, Ps, Os, Us) == PlannerInit(Es, Ts, Ps, Os, Us) /\ ToolIdle /\ FlowIdle

\* planner runs: task lists over the pool, a handful of days
Init ==
    InitWith(PlanEventLists, SeqsUpTo(TaskPool, MaxTasks), Preferences,
             {"calendar", "reversed"}, {0})

\* ----------------------------------------------------------------- actions
\* the clock passes midnight
Tick ==
    /\ clock < MaxTick
    /\ clock' = clock + 1
    /\ UNCHANGED << now_us, events, tasks, user_preferences, block_order,
                    calendar_data, free_blocks, score_today, scored_tasks,
                    allocated_tasks, schedule, suggest_today, suggestions,
                    result, pc, run, previous >>
    /\ UNCHANGED << toolvars, flowvars >>

\* CalendarManagerTool._get_events on the day's events
GetEvents ==
    /\ pc = "calendar"
    /\ calendar_data' = [success |-> TRUE, events |-> events,
                         free_blocks |-> CalculateFreeBlocks(events, now_us)]
    /\ pc' = "plan"
    /\ UNCHANGED << clock, now_us, events, tasks, user_preferences,
                    block_order, free_blocks, score_today, scored_tasks,
                    allocated_tasks, schedule, suggest_today, suggestions,
                    result, run, previous >>
    /\ UNCHANGED << toolvars, flowvars >>

\* the planner is called with the calendar's free blocks
CreatePriorityPlan ==
    /\ pc = "plan"
    /\ free_blocks' = IF block_order = "reversed"
                      THEN Reverse(calendar_data.free_blocks)
                      ELSE calendar_data.free_blocks
    /\ pc' = "score"
    /\ UNCHANGED << clock, now_us, events, tasks, user_preferences,
                    block_order, calendar_data, score_today, scored_tasks,
                    allocated_tasks, schedule, suggest_today, suggestions,
                    result, run, previous >>
    /\ UNCHANGED << toolvars, flowvars >>

\* _score_tasks: reads today, scores and ranks, or raises
ScoreTasksStep ==
    /\ pc = "score"
    /\ score_today' = clock
    /\ IF AnyScoreRaises(tasks)
       THEN /\ result' = FailureResult("TypeError")
            /\ pc' = "done"
            /\ UNCHANGED scored_tasks
       ELSE /\ scored_tasks' = ScoreTasks(tasks, clock)
            /\ pc' = "allocate"
            /\ UNCHANGED result
    /\ UNCHANGED << clock, now_us, events, tasks, user_preferences,
                    block_order, calendar_data, free_blocks, allocated_tasks,
                    schedule, suggest_today, suggestions, run, previous >>
    /\ UNCHANGED << toolvars, flowvars >>

\* _allocate_time_blocks: places tasks, or raises
AllocateStep ==
    /\ pc = "allocate"
    /\ LET alloc == AllocateTimeBlocks(scored_tasks, free_blocks,
                                       user_preferences)
       IN  /\ allocated_tasks' = alloc.allocated
           /\ IF alloc.raised
              THEN /\ result' = FailureResult("TypeError")
                   /\ pc' = "done"
                   /\ UNCHANGED schedule
              ELSE /\ schedule' = alloc.schedule
                   /\ pc' = "suggest"
                   /\ UNCHANGED result
    /\ UNCHANGED << clock, now_us, events, tasks, user_preferences,
                    block_order, calendar_data, free_blocks, score_today,
                    scored_tasks, suggest_today, suggestions, run, previous >>
    /\ UNCHANGED << toolvars, flowvars >>

\* _generate_suggestions: reads today again
SuggestStep ==
    /\ pc = "suggest"
    /\ suggest_today' = clock
    /\ suggestions' = GenerateSuggestions(scored_tasks, events, schedule, clock)
    /\ pc' = "assemble"
    /\ UNCHANGED << clock, now_us, events, tasks, user_preferences,
                    block_order, calendar_data, free_blocks, score_today,
                    scored_tasks, allocated_tasks, schedule, result, run,
                    previous >>
    /\ UNCHANGED << toolvars, flowvars >>

\* the return statement of _execute
AssembleStep ==
    /\ pc = "assemble"
    /\ result' = AssemblePlan(tasks, scored_tasks, schedule, suggestions,
                              events, free_blocks)
    /\ pc' = "done"
    /\ UNCHANGED << clock, now_us, events, tasks, user_preferences,
                    block_order, calendar_data, free_blocks, score_today,
                    scored_tasks, allocated_tasks, schedule, suggest_today,
                    suggestions, run, previous >>
    /\ UNCHANGED << toolvars, flowvars >>

\* the planner is called again with the same arguments
Rerun ==
    /\ pc = "done"
    /\ run < MaxRuns
    /\ previous' = [run |-> run, result |-> result,
                    score_today |-> score_today,
                    suggest_today |-> suggest_today]
    /\ run' = run + 1
    /\ score_today' = -1
    /\ suggest_today' = -1
    /\ scored_tasks' = << >>
    /\ schedule' = << >>
    /\ suggestions' = << >>
    /\ result' = NoResult
    /\ pc' = "score"
    /\ UNCHANGED << clock, now_us, events, tasks, user_preferences,
                    block_order, calendar_data, free_blocks, allocated_tasks >>
    /\ UNCHANGED << toolvars, flowvars >>

Next ==
    \/ Tick
    \/ GetEvents
    \/ CreatePriorityPlan
    \/ ScoreTasksStep
    \/ AllocateStep
    \/ SuggestStep
    \/ AssembleStep
    \/ Rerun

Spec == Init /\ [][Next]_vars

\* calendar runs: event lists over the pool, queried at any sub-minute offset
InitCal ==
    InitWith(SeqsUpTo(EventPool, MaxEvents),
             {<< >>, << TaskVendor, TaskMockups >>},
             {"null"}, {"calendar"}, 0 .. TicksPerMinute - 1)

SpecCal == InitCal /\ [][Next]_vars

\* scorer runs: one planning run over a single task of the task space
InitScore ==
    InitWith({MockEvents}, {<< t >> : t \in TaskSpace}, {"null"},
             {"calendar"}, {0})

NextScore ==
    \/ GetEvents
    \/ CreatePriorityPlan
    \/ ScoreTasksStep
    \/ AllocateStep
    \/ SuggestStep
    \/ AssembleStep

SpecScore == InitScore /\ [][NextScore]_vars

\* long task lists: more tasks than the plan's ranked list shows
ExtraTasks == 2

TaskIds ==
    << "T-01", "T-02", "T-03", "T-04", "T-05", "T-06", "T-07", "T-08",
       "T-09", "T-10", "T-11", "T-12", "T-13", "T-14", "T-15", "T-16" >>

\* the i-th task of a long list, in the shape of one of three pool tasks
TaskOfKind(i, kind) ==
    [(IF kind = "top" THEN TaskVendor
      ELSE IF kind = "high" THEN TaskRelease
      ELSE TaskMockups) EXCEPT !.id = TaskIds[i], !.title = TaskIds[i]]

\* lists of TopN .. TopN + ExtraTasks tasks: the two first and the two last
\* tasks are each top-scored or low, the tasks between them all high or all low
LongTaskListsOf(n) ==
    { [i \in 1..n |->
          IF i \in {1, 2, n - 1, n}
          THEN TaskOfKind(i, IF i \in tops THEN "top" ELSE "low")
          ELSE TaskOfKind(i, middle)] :
        tops \in SUBSET {1, 2, n - 1, n}, middle \in {"high", "low"} }

LongTaskLists == UNION {LongTaskListsOf(n) : n \in TopN .. TopN + ExtraTasks}

InitLong ==
    InitWith({MockEvents}, LongTaskLists, {"null"}, {"calendar"}, {0})

SpecLong == InitLong /\ [][Next]_vars

\* ================================================================= claims
\* two half-open intervals [s1, e1) and [s2, e2) share a moment
Overlaps(s1, e1, s2, e2) == s1 < e2 /\ s2 < e1

CalendarDone == pc # "calendar" /\ calendar_data.success

NoEventEndsBeforeStart ==
    \A k \in 1..Len(events) : ~EndsBeforeStart(events[k])

\* C1: for any list of calendar events (each ending no earlier than it
\* starts, as a CalendarEvent does; overlapping, contained and unsorted
\* events included) the free blocks returned are pairwise non-overlapping,
\* overlap no input event, and each has a duration of at least 15 minutes.
FreeBlocksDisjoint ==
    (CalendarDone /\ NoEventEndsBeforeStart) =>
        LET blocks == calendar_data.free_blocks IN
        /\ \A i, j \in 1..Len(blocks) :
              i < j => ~Overlaps(blocks[i].start_time, blocks[i].end_time,
                                 blocks[j].start_time, blocks[j].end_time)
        /\ \A i \in 1..Len(blocks) : \A k \in 1..Len(events) :
              ~Overlaps(blocks[i].start_time, blocks[i].end_time,
                        events[k].start_time, events[k].end_time)
        /\ \A i \in 1..Len(blocks) :
              /\ blocks[i].duration_minutes >= MinFreeBlockMinutes
              /\ blocks[i].end_time - blocks[i].start_time
                    >= MinFreeBlockMinutes * TicksPerMinute

\* an unsorted list with one event inside the other, and two blocks returned
FreeBlocksDisjointWitness ==
    /\ CalendarDone
    /\ NoEventEndsBeforeStart
    /\ Len(events) = 2
    /\ events[2].start_time < events[1].start_time
    /\ events[1].end_time < events[2].end_time
    /\ Len(calendar_data.free_blocks) = 2

\* C8: given an event whose end time is before its start time, the
\* free-block computation ends in a validation error instead of returning
\* a list of free blocks.
EndBeforeStartRejected ==
    (pc # "calendar" /\ ~NoEventEndsBeforeStart) => ~calendar_data.success

\* the task record an item was made from
TaskOf(id) == tasks[CHOOSE k \in 1..Len(tasks) : tasks[k].id = id]

\* estimated hours times 60, one hour when the field is missing
EstimatedMinutes(t) ==
    IF t.estimated_hours.kind = "val" THEN t.estimated_hours.v * 30 ELSE 60

\* C2: every item of the schedule has a duration equal to its task's
\* estimated duration in minutes and no longer than the free block it was
\* placed in, and its start and end both lie within that free block.
ItemsWithinBlocks ==
    \A k \in 1..Len(schedule) :
        /\ schedule[k].duration_minutes = EstimatedMinutes(TaskOf(schedule[k].task_id))
        /\ schedule[k].end_time - schedule[k].start_time
              = schedule[k].duration_minutes * TicksPerMinute
        /\ \E i \in 1..Len(free_blocks) :
              /\ schedule[k].start_time = free_blocks[i].start_time
              /\ schedule[k].duration_minutes <= free_blocks[i].duration_minutes
              /\ schedule[k].end_time <= free_blocks[i].end_time

\* an item that fills its block to the minute and one that leaves room
ItemsWithinBlocksWitness ==
    /\ pc = "done" /\ result.success
    /\ \E k \in 1..Len(schedule) : \E i \in 1..Len(free_blocks) :
          /\ schedule[k].start_time = free_blocks[i].start_time
          /\ schedule[k].end_time = free_blocks[i].end_time
    /\ \E k \in 1..Len(schedule) : \E i \in 1..Len(free_blocks) :
          /\ schedule[k].start_time = free_blocks[i].start_time
          /\ schedule[k].end_time < free_blocks[i].end_time

\* C3: no task identifier appears in more than one schedule item, for any
\* number and order of free blocks.
AtMostOneAllocation ==
    \A j, k \in 1..Len(schedule) :
        j # k => schedule[j].task_id # schedule[k].task_id

\* one task placed once although a later block could host it as well
AtMostOneAllocationWitness ==
    /\ pc = "done" /\ result.success
    /\ Len(schedule) = 1
    /\ Cardinality({i \in 1..Len(free_blocks) :
            /\ schedule[1].duration_minutes <= free_blocks[i].duration_minutes
            /\ ~IsMorning(free_blocks[i])}) >= 2

\* C9: every schedule item is tagged deep_work if and only if the free
\* block containing it has a duration of at least 90 minutes, and
\* focused_task otherwise, whether or not the block is a morning block and
\* whatever the morning-focus preference.
BlockTypeByDuration ==
    \A k \in 1..Len(schedule) : \A i \in 1..Len(free_blocks) :
        free_blocks[i].start_time = schedule[k].start_time =>
            /\ schedule[k].block_type \in {"deep_work", "focused_task"}
            /\ schedule[k].block_type = "deep_work"
                  <=> free_blocks[i].duration_minutes >= DeepWorkMinutes

\* Scenario D: morning focus on, a single 60-minute free block starting
\* before 12:00, two tasks of 60 minutes each, both scoring 80 or more
ScenarioD ==
    /\ pc = "done" /\ result.success
    /\ user_preferences # "focus_off"
    /\ Len(free_blocks) = 1
    /\ free_blocks[1].duration_minutes = 60
    /\ Hour(free_blocks[1].start_time) < 12
    /\ Len(tasks) = 2
    /\ tasks[1].id # tasks[2].id
    /\ \A k \in 1..2 : EstimatedMinutes(tasks[k]) = 60
    /\ \A k \in 1..Len(scored_tasks) : scored_tasks[k].priority_score >= 800

\* C10: in scenario D exactly one task is scheduled, it is the higher-ranked
\* one (the higher score; the earlier task on equal scores), and the other
\* is counted in the unscheduled-high-priority suggestion.
ScenarioDOutcome ==
    ScenarioD =>
        /\ Len(schedule) = 1
        /\ \A k \in 1..Len(scored_tasks) :
              schedule[1].priority_score >= scored_tasks[k].priority_score
        /\ (scored_tasks[1].priority_score = scored_tasks[2].priority_score
               => schedule[1].task_id = tasks[1].id)
        /\ \E n \in 1..Len(suggestions) :
              suggestions[n] = Suggestion("unscheduled_high_priority", 1)

\* scenario D with two tasks of different scores
ScenarioDWitness ==
    /\ ScenarioD
    /\ scored_tasks[1].priority_score > scored_tasks[2].priority_score
    /\ Len(schedule) = 1

\* C5: re-running the planning pipeline on identical tasks, events, free
\* blocks and preferences with identical reference dates yields an
\* identical plan.
PlanIdempotent ==
    (/\ pc = "done"
     /\ run > 1
     /\ previous.score_today = score_today
     /\ previous.suggest_today = suggest_today) => result = previous.result

\* a second run that ended in a plan with a schedule
PlanIdempotentWitness ==
    /\ pc = "done" /\ run > 1
    /\ previous.score_today = score_today
    /\ previous.suggest_today = suggest_today
    /\ result.success
    /\ Len(result.schedule) >= 1
    /\ Len(result.suggestions) >= 1

\* C6: within one planning run the date used to compute the deadline
\* scores equals the date used to decide the due-today suggestion, even
\* if the clock advances during the run.
TodayReadOnce ==
    (pc = "done" /\ result.success) => score_today = suggest_today

\* C4: for every task record the urgency, impact, deadline and context
\* sub-scores each lie in [0,100] and the composite priority score lies in
\* [0,100].
ScoresInRange ==
    /\ \A k \in 1..Len(scored_tasks) :
          /\ scored_tasks[k].urgency \in 0..100
          /\ scored_tasks[k].impact \in 0..100
          /\ scored_tasks[k].deadline_score \in 0..100
          /\ scored_tasks[k].priority_score \in 0..1000
    /\ \A k \in 1..Len(tasks) : CalculateContext(tasks[k]) \in 0..100

\* a task with every boost at once, scored at the top of the range
ScoresInRangeWitness ==
    \E k \in 1..Len(scored_tasks) :
        /\ scored_tasks[k].priority_score = 1000
        /\ scored_tasks[k].project = "Phoenix"
        /\ scored_tasks[k].story_points = Val(5)
        /\ {"blocker", "external-dependency"} \subseteq LabelsOf(scored_tasks[k])

\* C7: scoring and allocation never raise on a missing or unrecognized
\* priority tag, an unparseable due date, a missing estimated duration, a
\* null story-point weight or a null label set: every run ends in a plan.
NeverRaises ==
    pc = "done" => result.success


\* a time of day read to the minute, in minutes since midnight
MinuteOf(t) == t \div TicksPerMinute

\* C11: with an empty task list and an empty event list the run does not
\* fail: the free blocks are exactly one block 09:00-18:00 (to the minute)
\* of 540 minutes, the schedule is empty, the suggestion list is empty and
\* summary total_tasks is 0.
EmptyDayPlan ==
    (pc = "done" /\ tasks = << >> /\ events = << >>) =>
        /\ result.success
        /\ Len(calendar_data.free_blocks) = 1
        /\ MinuteOf(calendar_data.free_blocks[1].start_time) = 9 * 60
        /\ MinuteOf(calendar_data.free_blocks[1].end_time) = 18 * 60
        /\ calendar_data.free_blocks[1].duration_minutes = 540
        /\ free_blocks = calendar_data.free_blocks
        /\ result.schedule = << >>
        /\ result.suggestions = << >>
        /\ result.summary.total_tasks = 0

\* a finished run over no tasks and no events
EmptyDayPlanWitness ==
    /\ pc = "done" /\ tasks = << >> /\ events = << >>
    /\ result.success
    /\ result.summary.total_free_time = 540

\* the work window of the calculation
WindowStart == At(WorkStartHour, 0) + now_us
WindowEnd == At(WorkEndHour, 0) + now_us

\* every event lasts a positive time
EventsWellFormed ==
    \A k \in 1..Len(events) : events[k].end_time > events[k].start_time

\* the moments at which a maximal event-free interval can begin or end
WindowPoints ==
    {WindowStart, WindowEnd}
    \cup {t \in {events[k].start_time : k \in 1..Len(events)}
                \cup {events[k].end_time : k \in 1..Len(events)} :
             WindowStart <= t /\ t <= WindowEnd}

EventFree(s, e) ==
    /\ s < e
    /\ \A k \in 1..Len(events) :
          ~Overlaps(s, e, events[k].start_time, events[k].end_time)

\* the maximal event-free intervals of the work window of 15+ minutes
MaximalFreeIntervals ==
    {iv \in WindowPoints \X WindowPoints :
        /\ EventFree(iv[1], iv[2])
        /\ \A other \in WindowPoints \X WindowPoints :
              (EventFree(other[1], other[2])
                  /\ other[1] <= iv[1] /\ iv[2] <= other[2]) => other = iv
        /\ iv[2] - iv[1] >= MinFreeBlockMinutes * TicksPerMinute}

\* C12: the free-block calculation returns, in ascending start order,
\* exactly the maximal event-free intervals of the work window that are at
\* least 15 minutes long; a single event 09:00-09:15 yields exactly one
\* block 09:15-18:00 of 525 minutes.
FreeBlocksAreMaximalGaps ==
    (CalendarDone /\ EventsWellFormed) =>
        LET blocks == calendar_data.free_blocks IN
        /\ {<< blocks[i].start_time, blocks[i].end_time >> :
               i \in 1..Len(blocks)} = MaximalFreeIntervals
        /\ \A i, j \in 1..Len(blocks) :
              i < j => blocks[i].start_time < blocks[j].start_time
        /\ \A i \in 1..Len(blocks) :
              blocks[i].duration_minutes
                 = GapMinutes(blocks[i].start_time, blocks[i].end_time)
        /\ (events = << Event("evt_001", At(9, 0), At(9, 15)) >> =>
               /\ Len(blocks) = 1
               /\ MinuteOf(blocks[1].start_time) = 9 * 60 + 15
               /\ MinuteOf(blocks[1].end_time) = 18 * 60
               /\ blocks[1].duration_minutes = 525)

\* the same, for days whose events all start inside the work window
EventsStartInWindow ==
    \A k \in 1..Len(events) : events[k].start_time <= WindowEnd

FreeBlocksAreMaximalGapsInWindow ==
    EventsStartInWindow => FreeBlocksAreMaximalGaps


\* ------------------------------------------------- the built-in mock data
TaskDemo ==
    Task("PHOE-189", "Phoenix", "todo", "medium", DueDate(4),
         Hours(3), Val(3), Val({"demo", "presentation"}), FALSE)
TaskRoadmap ==
    Task("ATLS-234", "Atlas", "todo", "high", DueDate(3),
         Hours(4), Val(5), Val({"planning", "roadmap"}), FALSE)

MockTitle(id) ==
    CASE id = "PHOE-178" -> "Review API spec for payment integration"
      [] id = "PHOE-145" -> "Follow up on vendor API key delay"
      [] id = "PHOE-189" -> "Prepare sprint demo slides"
      [] id = "ATLS-234" -> "Review Q1 roadmap with Atlas team"
      [] id = "ATLS-245" -> "Approve design mockups for Atlas v2"
      [] id = "PHOE-201" -> "Update user documentation for new payment flow"
      [] OTHER -> id

WithTitle(t) == [t EXCEPT !.title = MockTitle(t.id)]

\* the six tasks in the order _generate_mock_tasks lists them
GenerateMockTasks ==
    << WithTitle(TaskApiSpec), WithTitle(TaskVendor), WithTitle(TaskDemo),
       WithTitle(TaskRoadmap), WithTitle(TaskMockups), WithTitle(TaskDocs) >>

\* filters = {'status': [...]}: keep the tasks whose status is listed
ApplyFilters(ts, statuses) ==
    LET Keep(t) == t.status \in statuses
    IN  SelectSeq(ts, Keep)

\* sorted(tasks, key = due_date): stable, ascending; ISO dates order as days
RECURSIVE InsertByDueDate(_, _)
InsertByDueDate(sorted, t) ==
    IF sorted = << >> THEN << t >>
    ELSE IF sorted[Len(sorted)].due_date.day <= t.due_date.day
         THEN Append(sorted, t)
         ELSE Append(InsertByDueDate(SubSeq(sorted, 1, Len(sorted) - 1), t),
                     sorted[Len(sorted)])

RECURSIVE SortTasks(_)
SortTasks(ts) ==
    IF ts = << >> THEN << >>
    ELSE InsertByDueDate(SortTasks(SubSeq(ts, 1, Len(ts) - 1)), ts[Len(ts)])

\* the task query of the priority-plan workflow
QueryTasks ==
    SortTasks(ApplyFilters(GenerateMockTasks, {"todo", "in_progress"}))

InitMock ==
    InitWith({MockEvents}, {QueryTasks}, Preferences,
             {"calendar", "reversed"}, 0 .. TicksPerMinute - 1)

SpecMock == InitMock /\ [][Next]_vars

\* ------------------------------------------------- allocation on short blocks
\* a task estimated at zero hours: it fits a block of any length
TaskQuick ==
    Task("PHOE-151", "Phoenix", "todo", "critical", DueDate(0),
         Hours(0), Val(5), Absent, FALSE)

AllocTaskPool == {TaskVendor, TaskApiSpec, TaskMockups, TaskDocs, TaskQuick}

\* the days of PlanEventLists and a day whose only free block has 20 minutes
AllocEventLists ==
    PlanEventLists \cup {<< Event("evt_013", At(9, 20), At(18, 0)) >>}

InitAlloc ==
    InitWith(AllocEventLists, SeqsUpTo(AllocTaskPool, MaxTasks), Preferences,
             {"calendar", "reversed"}, {0})

SpecAlloc == InitAlloc /\ [][Next]_vars

\* ------------------------------------------------- BaseTool.execute
MaxAttempts == 3
MaxCalls == 3
MaxAdvances == 2

\* cache_ttl of the three tools, in seconds
CalendarCacheTtl == 1800
TaskCacheTtl == 300
PlannerCacheTtl == 0

\* max_retries of the decorators around the two _execute methods
CalendarMaxRetries == 2
TaskMaxRetries == 3

Seconds(n) == n * 2

Tools == {"manage_calendar", "manage_tasks", "create_priority_plan"}

CacheTtl(t) ==
    CASE t = "manage_calendar" -> Seconds(CalendarCacheTtl)
      [] t = "manage_tasks" -> Seconds(TaskCacheTtl)
      [] t = "create_priority_plan" -> Seconds(PlannerCacheTtl)

\* the delay argument of the decorator: 0.5 s and 1.0 s, in half seconds
Delay(t) == IF t = "manage_calendar" THEN 1 ELSE 2

\* the retry counts tried for a decorated _execute, the program's among them
RetryCounts(t) ==
    IF t = "create_priority_plan" THEN {1}
    ELSE 1 .. Max2(MaxAttempts, Max2(CalendarMaxRetries, TaskMaxRetries))

\* the parameters a tool is called with: its actions, an action it does not
\* know, and for the planner a task list json.dumps cannot serialise
KwargsOf(t) ==
    CASE t = "manage_calendar" -> {"get_events", "unknown_action"}
      [] t = "manage_tasks" -> {"get_my_tasks", "unknown_action"}
      [] t = "create_priority_plan" -> {"plan", "plan_unserialisable"}

\* _get_cache_key: the md5 of the sorted JSON of the parameters, or None
CacheKey(kw) == IF kw = "plan_unserialisable" THEN "None" ELSE kw

\* what _execute returns for the parameters when it does not raise
ReturnedError(kw) == IF kw = "unknown_action" THEN "invalid_action" ELSE "none"

\* the freshness test accepting an entry as old as the ttl
IsFreshInclusive(age, ttl) == age <= ttl

\* age < self.cache_ttl
IsFresh(age, ttl) == age < ttl

\* the retry test counting one attempt too many
MoreAttemptsOffByOne(attempt_, max_) == attempt_ < max_

\* attempt < max_retries - 1
MoreAttempts(attempt_, max_) == attempt_ < max_ - 1

RECURSIVE Pow2(_)
Pow2(n) == IF n = 0 THEN 1 ELSE 2 * Pow2(n - 1)

\* delay * (2 ** attempt)
WaitTime(delay, attempt_) == delay * Pow2(attempt_)

CacheWith(key, entry) ==
    [k \in DOMAIN cache \cup {key} |-> IF k = key THEN entry ELSE cache[k]]

\* the gaps by which the wall clock moves between two calls
ClockSteps == {Seconds(1), Seconds(TaskCacheTtl - 1), Seconds(CalendarCacheTtl - TaskCacheTtl)}

InitTool ==
    /\ PlannerInit({<< >>}, {<< >>}, {"null"}, {"calendar"}, {0})
    /\ FlowIdle
    /\ tool \in Tools
    /\ max_retries \in RetryCounts(tool)
    /\ wall_clock = 0
    /\ advances = 0
    /\ cache = [k \in {} |-> NoResponse]
    /\ calls = 0
    /\ kwargs = "none"
    /\ exec_pc = "idle"
    /\ attempt = 0
    /\ attempt_log = << >>
    /\ response = NoResponse

plannervars == << clock, now_us, events, tasks, user_preferences, block_order, calendar_data, free_blocks, score_today, scored_tasks, allocated_tasks, schedule, suggest_today, suggestions, result, pc, run, previous >>

\* time passes between two calls
Advance ==
    /\ exec_pc = "idle"
    /\ advances < MaxAdvances
    /\ \E d \in ClockSteps : wall_clock' = wall_clock + d
    /\ advances' = advances + 1
    /\ UNCHANGED << tool, max_retries, cache, calls, kwargs, exec_pc, attempt,
                    attempt_log, response >>
    /\ UNCHANGED << plannervars, flowvars >>

\* execute up to the call of _execute: the cache is consulted
Execute ==
    /\ exec_pc = "idle"
    /\ calls < MaxCalls
    /\ calls' = calls + 1
    /\ \E kw \in KwargsOf(tool) :
          LET cache_key == CacheKey(kw)
              stored == cache_key # "None" /\ cache_key \in DOMAIN cache
              age == wall_clock - cache[cache_key].cached_time
          IN  /\ kwargs' = kw
              /\ IF stored /\ IsFresh(age, CacheTtl(tool))
                 THEN LET cached_result == [cache[cache_key].result EXCEPT !.cached = TRUE, !.cache_age = age]
                      IN  /\ response' = cached_result
                          /\ cache' = [cache EXCEPT ![cache_key].result = cached_result]
                          /\ exec_pc' = "idle"
                 ELSE /\ response' = NoResponse
                      /\ exec_pc' = "invoke"
                      /\ UNCHANGED cache
    /\ attempt' = 0
    /\ attempt_log' = << >>
    /\ UNCHANGED << tool, max_retries, wall_clock, advances >>
    /\ UNCHANGED << plannervars, flowvars >>

\* one invocation of _execute by the wrapper, and what follows it at once:
\* the return through execute, or the exception handler of execute
Invoke ==
    /\ exec_pc = "invoke"
    /\ \E raises \in BOOLEAN :
          IF ~raises
          THEN LET new_result == [success |-> TRUE, error |-> ReturnedError(kwargs), cached |-> FALSE, cache_age |-> 0, value |-> attempt + 1]
               IN  /\ attempt_log' = Append(attempt_log, [kind |-> "returned", n |-> attempt + 1])
                   /\ response' = new_result
                   /\ cache' = IF CacheKey(kwargs) # "None"
                               THEN CacheWith(CacheKey(kwargs), [result |-> new_result, cached_time |-> wall_clock])
                               ELSE cache
                   /\ exec_pc' = "idle"
          ELSE /\ attempt_log' = Append(attempt_log, [kind |-> "raised", n |-> attempt + 1])
               /\ UNCHANGED cache
               /\ IF MoreAttempts(attempt, max_retries)
                  THEN /\ exec_pc' = "sleep"
                       /\ UNCHANGED response
                  ELSE /\ exec_pc' = "idle"
                       /\ response' = [success |-> FALSE, error |-> "exception", cached |-> FALSE, cache_age |-> 0, value |-> attempt + 1]
    /\ UNCHANGED << tool, max_retries, wall_clock, advances, calls, kwargs, attempt >>
    /\ UNCHANGED << plannervars, flowvars >>

\* time.sleep(wait_time), then the next round of the loop
Sleep ==
    /\ exec_pc = "sleep"
    /\ wall_clock' = wall_clock + WaitTime(Delay(tool), attempt)
    /\ attempt_log' = Append(attempt_log, [kind |-> "slept", n |-> WaitTime(Delay(tool), attempt)])
    /\ attempt' = attempt + 1
    /\ exec_pc' = "invoke"
    /\ UNCHANGED << tool, max_retries, advances, cache, calls, kwargs, response >>
    /\ UNCHANGED << plannervars, flowvars >>

NextTool ==
    \/ Advance
    \/ Execute
    \/ Invoke
    \/ Sleep

SpecTool == InitTool /\ [][NextTool]_vars

\* ---------------------------------------------------- pairs of due dates
\* the latest due day drawn, counted from the day the run starts
MaxDays == 25

\* the earliest due day drawn: two days overdue
FirstDay == 0 - 2

\* every value the due_date field is given: missing, None, not a date, and
\* the days FirstDay .. MaxDays in date and in datetime form
DueValues ==
    {Absent, Null, Garbage}
        \cup {DueDate(d) : d \in FirstDay .. MaxDays}
        \cup {DueDateTime(d) : d \in FirstDay .. MaxDays}

TaskDue(i, due) ==
    [TaskMockups EXCEPT !.id = TaskIds[i], !.title = TaskIds[i], !.due_date = due]

InitDeadline ==
    InitWith({MockEvents},
             {<< TaskDue(1, a), TaskDue(2, b) >> : a, b \in DueValues},
             {"null"}, {"calendar"}, {0})

SpecDeadline == InitDeadline /\ [][Next]_vars

\* the suggestions of the run have been generated
SuggestionsMade == pc = "assemble" \/ (pc = "done" /\ result.success)

\* the scored tasks scoring 80 or more that no schedule item names
UnscheduledHigh ==
    {k \in 1..Len(scored_tasks) :
        /\ scored_tasks[k].priority_score >= 800
        /\ \A j \in 1..Len(schedule) :
              schedule[j].task_id # scored_tasks[k].id}

\* C13: the unscheduled-high-priority suggestion is emitted if and only if
\* at least one scored task (among all scored tasks, not only the top 10)
\* scores 80 or more and has no schedule item with its identifier, and the
\* count it names is the number of such tasks.
UnscheduledSuggestionExact ==
    SuggestionsMade =>
        LET hits == {n \in 1..Len(suggestions) :
                        suggestions[n].kind = "unscheduled_high_priority"}
        IN  /\ Cardinality(hits) <= 1
            /\ (hits # {}) <=> (UnscheduledHigh # {})
            /\ \A n \in hits :
                  suggestions[n].count = Cardinality(UnscheduledHigh)

\* an unscheduled high-priority task ranked below the tenth is counted
UnscheduledSuggestionWitness ==
    /\ pc = "done" /\ result.success
    /\ Len(schedule) >= 1
    /\ \E k \in UnscheduledHigh : k > TopN
    /\ \E n \in 1..Len(suggestions) :
          /\ suggestions[n].kind = "unscheduled_high_priority"
          /\ suggestions[n].count > TopN - Len(schedule)

\* total of the duration_minutes fields, summed from the last element down
RECURSIVE TotalMinutes(_, _)
TotalMinutes(xs, n) ==
    IF n = 0 THEN 0 ELSE TotalMinutes(xs, n - 1) + xs[n].duration_minutes

\* C15: in the assembled plan total_tasks is the number of input tasks,
\* high_priority_count the number of all scored tasks scoring 80 or more,
\* scheduled_tasks the length of the schedule, the meeting and free totals
\* the sums of the event and free-block durations, and the ranked list the
\* first 10 entries of the sorted scored list.
PlanSummaryExact ==
    (pc = "done" /\ result.success) =>
        /\ result.summary.total_tasks = Len(tasks)
        /\ result.summary.high_priority_count
              = Cardinality({k \in 1..Len(scored_tasks) :
                                scored_tasks[k].priority_score >= 800})
        /\ result.summary.scheduled_tasks = Len(schedule)
        /\ result.schedule = schedule
        /\ result.suggestions = suggestions
        /\ result.summary.total_meeting_time
              = TotalMinutes(events, Len(events))
        /\ result.summary.total_free_time
              = TotalMinutes(free_blocks, Len(free_blocks))
        /\ Len(result.prioritized_tasks)
              = (IF Len(scored_tasks) < 10 THEN Len(scored_tasks) ELSE 10)
        /\ \A k \in 1..Len(result.prioritized_tasks) :
              result.prioritized_tasks[k] = scored_tasks[k]

\* a plan over more than ten tasks with a high-priority task below the tenth
PlanSummaryWitness ==
    /\ pc = "done" /\ result.success
    /\ Len(scored_tasks) > TopN
    /\ Len(result.prioritized_tasks) = TopN
    /\ result.summary.high_priority_count > TopN
    /\ result.summary.scheduled_tasks >= 1

\* the place in the input list of the k-th scored task
InputIndex(k) ==
    CHOOSE i \in 1..Len(tasks) : tasks[i].id = scored_tasks[k].id

\* the scoring step of the run has produced the ranked list
Scored == pc \in {"allocate", "suggest", "assemble"}
              \/ (pc = "done" /\ result.success)

\* C16: the scored list contains exactly one scored copy of each input
\* task, is ordered by priority score descending, and tasks of equal score
\* keep their relative input order.
RankedListStable ==
    Scored =>
        /\ Len(scored_tasks) = Len(tasks)
        /\ \A i \in 1..Len(tasks) :
              Cardinality({k \in 1..Len(scored_tasks) :
                              scored_tasks[k].id = tasks[i].id}) = 1
        /\ \A k \in 1..Len(scored_tasks) :
              /\ [f \in DOMAIN tasks[InputIndex(k)] |-> scored_tasks[k][f]]
                    = tasks[InputIndex(k)]
              /\ scored_tasks[k] = ScoreTask(tasks[InputIndex(k)], score_today)
        /\ \A j, k \in 1..Len(scored_tasks) :
              j < k =>
                 \/ scored_tasks[j].priority_score > scored_tasks[k].priority_score
                 \/ /\ scored_tasks[j].priority_score = scored_tasks[k].priority_score
                    /\ InputIndex(j) < InputIndex(k)

\* a list that scoring reorders and that holds tasks of equal score
RankedListStableWitness ==
    /\ Scored
    /\ \E j, k \in 1..Len(scored_tasks) :
          j < k /\ InputIndex(j) > InputIndex(k)
    /\ \E j, k \in 1..Len(scored_tasks) :
          /\ j < k
          /\ scored_tasks[j].priority_score = scored_tasks[k].priority_score


\* the tasks whose deadline score was computed with daysUntilDue = 0
DueOnReferenceDate ==
    {k \in 1..Len(tasks) :
        Parses(tasks[k].due_date) /\ tasks[k].due_date.day - score_today = 0}

\* C14: the due-today suggestion is emitted if and only if at least one
\* task's due date is the reference date, and the count it names is the
\* number of tasks whose due date falls on the reference date, whatever
\* valid ISO form the due date is given in.
DueTodayMatchesDeadline ==
    (pc = "done" /\ result.success /\ suggest_today = score_today) =>
        LET hits == {n \in 1..Len(suggestions) :
                        suggestions[n].kind = "due_today"}
        IN  /\ (hits # {}) <=> (DueOnReferenceDate # {})
            /\ \A n \in hits :
                  suggestions[n].count = Cardinality(DueOnReferenceDate)


\* the plan of a run scored on the day the mock data was generated
MockPlanDone == pc = "done" /\ result.success /\ score_today = 0

\* the summary and the top-ranked task of the example's expected output
MockPlanOverview(top_score) ==
    /\ result.summary.total_tasks = 6
    /\ result.summary.high_priority_count = 2
    /\ result.summary.total_meeting_time = 105
    /\ result.summary.total_free_time = 435
    /\ result.prioritized_tasks[1].title = "Follow up on vendor API key delay"
    /\ result.prioritized_tasks[1].priority_score = top_score

\* C17: for the built-in mock data on a weekday the plan reports Total
\* Tasks 6, High Priority 2, Meetings 105 minutes, Available Time 435
\* minutes, and the top-ranked task is 'Follow up on vendor API key delay'
\* with score 99.0.
MockPlanAsDocumented == MockPlanDone => MockPlanOverview(990)

\* what the scorer computes for the same run: the top score is 98.0
MockPlanAsComputed == MockPlanDone => MockPlanOverview(980)


\* the allocation of the run has produced the schedule
Allocated == pc \in {"suggest", "assemble"} \/ (pc = "done" /\ result.success)

\* the place in the supplied list of the free block that hosts the j-th item
BlockOf(j) ==
    CHOOSE b \in 1..Len(free_blocks) :
        free_blocks[b].start_time = schedule[j].start_time

\* C18: the allocator processes free blocks in order of descending
\* duration, blocks of equal duration in ascending start-time order whatever
\* order they were supplied in, and the schedule lists items in that order.
ScheduleOrderedByStartOnTies ==
    Allocated =>
        \A j, k \in 1..Len(schedule) :
            j < k =>
               LET bj == free_blocks[BlockOf(j)]
                   bk == free_blocks[BlockOf(k)]
               IN  \/ bj.duration_minutes > bk.duration_minutes
                   \/ /\ bj.duration_minutes = bk.duration_minutes
                      /\ bj.start_time < bk.start_time

\* C18 as amended: blocks of equal duration are processed in the order they
\* were supplied in, and the schedule lists items in block-processing order.
ScheduleOrderedBySupplyOnTies ==
    Allocated =>
        \A j, k \in 1..Len(schedule) :
            j < k =>
               LET bj == free_blocks[BlockOf(j)]
                   bk == free_blocks[BlockOf(k)]
               IN  \/ bj.duration_minutes > bk.duration_minutes
                   \/ /\ bj.duration_minutes = bk.duration_minutes
                      /\ BlockOf(j) < BlockOf(k)

\* two blocks of equal duration supplied latest first, both hosting an item
ScheduleOrderedBySupplyWitness ==
    /\ pc = "done" /\ result.success
    /\ Len(schedule) = 2
    /\ free_blocks[BlockOf(1)].duration_minutes
          = free_blocks[BlockOf(2)].duration_minutes
    /\ schedule[1].start_time > schedule[2].start_time
    /\ BlockOf(1) < BlockOf(2)


\* block a is processed before block b (places in the supplied list)
Precedes(a, b) ==
    \/ free_blocks[a].duration_minutes > free_blocks[b].duration_minutes
    \/ /\ free_blocks[a].duration_minutes = free_blocks[b].duration_minutes
       /\ a < b

\* the identifiers placed in the blocks processed before block b
PlacedBefore(b) ==
    {schedule[j].task_id : j \in {i \in 1..Len(schedule) : Precedes(BlockOf(i), b)}}

\* the morning rule: with the focus preference on, a block starting before
\* noon takes tasks scoring 80 or more only
PassesMorningRule(t, b) ==
    \/ user_preferences = "focus_off"
    \/ free_blocks[b].start_time >= At(12, 0)
    \/ t.priority_score >= 800

\* the k-th ranked task may be placed in block b when the block is processed
Eligible(k, b) ==
    /\ scored_tasks[k].id \notin PlacedBefore(b)
    /\ EstimatedMinutes(scored_tasks[k]) <= free_blocks[b].duration_minutes
    /\ PassesMorningRule(scored_tasks[k], b)

\* C19: each free block of at least 30 minutes receives at most one task,
\* the first task in ranked order that is still unallocated, fits the block
\* and passes the morning rule; the block stays empty only if there is no
\* such task, and no task is placed in a block shorter than 30 minutes.
GreedyFirstFit ==
    Allocated =>
        /\ \A i, j \in 1..Len(schedule) : BlockOf(i) = BlockOf(j) => i = j
        /\ \A j \in 1..Len(schedule) :
              /\ \E b \in 1..Len(free_blocks) :
                    free_blocks[b].start_time = schedule[j].start_time
              /\ free_blocks[BlockOf(j)].duration_minutes >= 30
              /\ \E k \in 1..Len(scored_tasks) :
                    /\ scored_tasks[k].id = schedule[j].task_id
                    /\ Eligible(k, BlockOf(j))
                    /\ \A h \in 1..(k - 1) : ~Eligible(h, BlockOf(j))
        /\ \A b \in 1..Len(free_blocks) :
              (/\ free_blocks[b].duration_minutes >= 30
               /\ \A j \in 1..Len(schedule) : BlockOf(j) # b)
                  => \A k \in 1..Len(scored_tasks) : ~Eligible(k, b)

\* a block shorter than 30 minutes left empty although an unallocated task
\* fits it and passes the morning rule, beside a task that is never placed
\* because it fits no block
GreedyFirstFitWitness ==
    /\ pc = "done" /\ result.success
    /\ Len(scored_tasks) = 2
    /\ schedule = << >>
    /\ \E b \in 1..Len(free_blocks) :
          /\ free_blocks[b].duration_minutes < 30
          /\ \E k \in 1..Len(scored_tasks) : Eligible(k, b)
          /\ \E k \in 1..Len(scored_tasks) : ~Eligible(k, b)

\* C20: when the morning-focus preference is on (also by default, when the
\* preferences are absent), no task scoring less than 80 is scheduled in a
\* free block that starts before 12:00; such a task is skipped for that
\* block.
MorningFocusHolds ==
    (Allocated /\ user_preferences # "focus_off") =>
        \A j \in 1..Len(schedule) :
            schedule[j].start_time < At(12, 0)
                => schedule[j].priority_score >= 800

\* preferences absent: a morning block left empty although a task scoring
\* less than 80 fits it, the task being placed in the afternoon instead
MorningFocusWitness ==
    /\ pc = "done" /\ result.success
    /\ user_preferences \in {"null", "empty"}
    /\ \E b \in 1..Len(free_blocks), k \in 1..Len(scored_tasks) :
          /\ free_blocks[b].start_time < At(12, 0)
          /\ free_blocks[b].duration_minutes >= 30
          /\ \A j \in 1..Len(schedule) : BlockOf(j) # b
          /\ scored_tasks[k].priority_score < 800
          /\ EstimatedMinutes(scored_tasks[k]) <= free_blocks[b].duration_minutes
          /\ \E j \in 1..Len(schedule) :
                /\ schedule[j].task_id = scored_tasks[k].id
                /\ schedule[j].start_time >= At(12, 0)


\* the deadline mapping as the specification states it
DeadlineMapping(due, today) ==
    IF due.kind \notin {"date", "datetime"} THEN 50
    ELSE LET d == due.day - today
         IN  CASE d <= 0 -> 100
               [] d = 1 -> 90
               [] d \in 2..3 -> 75
               [] d \in 4..7 -> 60
               [] OTHER -> IF 100 - 3 * d > 30 THEN 100 - 3 * d ELSE 30

\* C21: the deadline score equals the mapping of the specification for
\* every daysUntilDue (100 when negative or 0, 90 when 1, 75 when 2..3, 60
\* when 4..7, max(30, 100 - 3 x daysUntilDue) above 7), and 50 when the due
\* date is absent or unparseable.
DeadlineScoreAsMapped ==
    Scored =>
        \A k \in 1..Len(scored_tasks) :
            scored_tasks[k].deadline_score
                = DeadlineMapping(tasks[InputIndex(k)].due_date, score_today)

\* a task due so late that the floor of 30 applies beside one without a
\* parseable due date, scored after midnight has passed
DeadlineScoreWitness ==
    /\ Scored
    /\ score_today = 1
    /\ \E j, k \in 1..Len(scored_tasks) :
          /\ scored_tasks[j].due_date.kind = "datetime"
          /\ scored_tasks[j].due_date.day - score_today = 24
          /\ scored_tasks[j].deadline_score = 30
          /\ scored_tasks[k].due_date.kind = "garbage"
          /\ scored_tasks[k].deadline_score = 50

\* C26: the deadline score is monotonically non-increasing in daysUntilDue:
\* of two due dates, the later never receives a higher deadline score.
DeadlineMonotone ==
    Scored =>
        \A j, k \in 1..Len(scored_tasks) :
            (/\ Parses(scored_tasks[j].due_date)
             /\ Parses(scored_tasks[k].due_date)
             /\ scored_tasks[j].due_date.day <= scored_tasks[k].due_date.day)
                => scored_tasks[j].deadline_score >= scored_tasks[k].deadline_score


\* the label set of a task, empty when the field is missing
RuleLabels(t) == IF t.labels.kind = "val" THEN t.labels.v ELSE {}

\* a sum capped at 100
Capped(n) == IF n > 100 THEN 100 ELSE n

\* urgency by the additive rule of the specification
RuleUrgency(t) ==
    LET base == CASE t.priority = "critical" -> 100
                  [] t.priority = "high" -> 75
                  [] t.priority = "medium" -> 50
                  [] t.priority = "low" -> 25
                  [] OTHER -> 50
        blocked == Capped(base + (IF t.blocked THEN 15 ELSE 0))
    IN  Capped(blocked + (IF "critical-path" \in RuleLabels(t) THEN 10 ELSE 0))

\* impact by the additive rule of the specification
RuleImpact(t) ==
    LET points == IF t.story_points.kind = "val" THEN t.story_points.v ELSE 0
    IN  Capped(50 + (IF t.project = "Phoenix" THEN 20 ELSE 0)
                  + (IF points >= 5 THEN 15 ELSE IF points >= 3 THEN 10 ELSE 0)
                  + (IF "blocker" \in RuleLabels(t) THEN 20 ELSE 0)
                  + (IF "external-dependency" \in RuleLabels(t) THEN 10 ELSE 0))

\* context by the additive rule of the specification
RuleContext(t) ==
    Capped(50 + (IF t.status = "in_progress" THEN 30 ELSE 0)
              + (IF t.blocked THEN 20 ELSE 0))

\* C22: the priority score of every task is (4 x urgency + 3 x impact +
\* 2 x deadline + 1 x context) / 10 to one decimal place (held in tenths),
\* with urgency, impact and context by the additive rules; a critical,
\* non-blocked task due today has urgency 100 and deadline score 100; and a
\* task is counted high-priority exactly when the value is 80 or more.
PriorityScoreAsWeighted ==
    Scored =>
        /\ \A k \in 1..Len(scored_tasks) :
              LET t == tasks[InputIndex(k)]
                  s == scored_tasks[k]
              IN  /\ s.urgency = RuleUrgency(t)
                  /\ s.impact = RuleImpact(t)
                  /\ s.priority_score
                        = 4 * RuleUrgency(t) + 3 * RuleImpact(t)
                          + 2 * DeadlineMapping(t.due_date, score_today)
                          + RuleContext(t)
                  /\ (/\ t.priority = "critical" /\ ~t.blocked
                      /\ Parses(t.due_date) /\ t.due_date.day = score_today)
                        => s.urgency = 100 /\ s.deadline_score = 100
        /\ (pc = "done" /\ result.success) =>
              result.summary.high_priority_count
                 = Cardinality({k \in 1..Len(scored_tasks) :
                      4 * RuleUrgency(tasks[InputIndex(k)])
                      + 3 * RuleImpact(tasks[InputIndex(k)])
                      + 2 * DeadlineMapping(tasks[InputIndex(k)].due_date,
                                            score_today)
                      + RuleContext(tasks[InputIndex(k)]) >= 800})

\* a critical, non-blocked task due today whose score is 80.0 to the tenth,
\* counted as high-priority
PriorityScoreWitness ==
    /\ pc = "done" /\ result.success
    /\ Len(scored_tasks) = 1
    /\ tasks[1].priority = "critical" /\ ~tasks[1].blocked
    /\ tasks[1].due_date = DueDateTime(0) /\ score_today = 0
    /\ scored_tasks[1].priority_score = 800
    /\ result.summary.high_priority_count = 1


\* the places of attempt_log that are invocations of the wrapped function
Invocations ==
    {i \in 1..Len(attempt_log) : attempt_log[i].kind \in {"raised", "returned"}}

\* the call in progress goes through the retry decorator
Decorated == tool # "create_priority_plan" /\ calls > 0

\* C23: a function wrapped by retry_on_failure(max_retries = n), n >= 1, is
\* invoked at most n times; the value of the first successful invocation is
\* returned and no invocation follows it; a backoff wait occurs only between
\* a failed attempt and the next one; and when all n attempts fail the
\* exception of the last attempt reaches the caller.
RetryDiscipline ==
    Decorated =>
        /\ Cardinality(Invocations) <= max_retries
        /\ \A i \in 1..Len(attempt_log) :
              /\ attempt_log[i].kind = "returned" =>
                    /\ i = Len(attempt_log)
                    /\ exec_pc = "idle"
                    /\ response.success
                    /\ response.value = attempt_log[i].n
                    /\ \A j \in 1..(i - 1) : attempt_log[j].kind # "returned"
              /\ attempt_log[i].kind = "slept" =>
                    /\ i > 1
                    /\ attempt_log[i - 1].kind = "raised"
                    /\ IF i < Len(attempt_log)
                       THEN i + 1 \in Invocations
                       ELSE exec_pc = "invoke"
        /\ (/\ exec_pc = "idle"
            /\ attempt_log # << >>
            /\ attempt_log[Len(attempt_log)].kind = "raised") =>
              /\ Cardinality(Invocations) = max_retries
              /\ \A i \in Invocations : attempt_log[i].kind = "raised"
              /\ ~response.success
              /\ response.value = attempt_log[Len(attempt_log)].n
              /\ response.value = max_retries

\* three attempts: two failures, each followed by its wait, then a value
RetryDisciplineWitness ==
    /\ tool = "manage_tasks"
    /\ max_retries = 3
    /\ exec_pc = "idle"
    /\ Len(attempt_log) = 5
    /\ attempt_log[1].kind = "raised" /\ attempt_log[2].kind = "slept"
    /\ attempt_log[3].kind = "raised" /\ attempt_log[4].kind = "slept"
    /\ attempt_log[4].n = 2 * attempt_log[2].n
    /\ attempt_log[5].kind = "returned"
    /\ response.success /\ response.value = 3

\* C24: the priority planner never serves a plan from its cache: every
\* execute call on it runs _execute again, also when an earlier call with
\* identical parameters is stored; and BaseTool.execute returns a stored
\* result only while its age is strictly less than the tool's cache_ttl.
CacheServesOnlyFresh ==
    /\ response.cached =>
          /\ response.cache_age >= 0
          /\ response.cache_age < CacheTtl(tool)
    /\ (exec_pc = "idle" /\ calls > 0 /\ Invocations = {}) => response.cached
    /\ tool = "create_priority_plan" =>
          /\ ~response.cached
          /\ (exec_pc = "idle" /\ calls > 0) => Invocations # {}

\* the planner about to run _execute although the same parameters were
\* stored at this very instant
CacheServesOnlyFreshWitness ==
    /\ tool = "create_priority_plan"
    /\ exec_pc = "invoke"
    /\ kwargs = "plan"
    /\ "plan" \in DOMAIN cache
    /\ cache["plan"].cached_time = wall_clock

\* C28: BaseTool.execute returns success = true only when the operation
\* succeeded; when _execute returns an error-valued result or raises, the
\* result handed to the caller does not have success = true, and the error
\* result is not served later as a cached success.
SuccessOnlyWhenSucceeded ==
    /\ (exec_pc = "idle" /\ calls > 0 /\ response.success)
          => response.error = "none"
    /\ \A k \in DOMAIN cache : cache[k].result.error = "none"


\* C27: every free block returned lies inside the work window (start >=
\* workStart, end <= workEnd) for any events, events that start after workEnd
\* or end before workStart included; hence the total free minutes never
\* exceed the length of the work window.
FreeBlocksInsideWindow ==
    CalendarDone =>
        /\ \A i \in 1..Len(calendar_data.free_blocks) :
              /\ calendar_data.free_blocks[i].start_time >= WindowStart
              /\ calendar_data.free_blocks[i].end_time <= WindowEnd
        /\ TotalMinutes(calendar_data.free_blocks, Len(calendar_data.free_blocks))
              <= (WorkEndHour - WorkStartHour) * 60


\* ------------------------------------------- the workflows of the agent
\* the queries AgentOrchestrator.run is given, as the set of the words the
\* routing test looks for that the query contains, plus one other word
Queries == {{"priority"}, {"plan", "status"}, {"schedule"}, {"today"}, {"status"}, {"email", "status"}}

PlanKeywords == {"priority", "plan", "schedule", "today"}

\* run: the graph picked for a query
WorkflowOf(query) ==
    IF query \cap PlanKeywords # {} THEN "priority_plan" ELSE "status_email"

\* the length of tool_errors above which should_handle_error picks handle_error
ErrorThreshold == 2

\* what a tool call inside a node does: it returns a result with success
\* true, returns one with success false, or the node's try block raises
Outcomes == {"success", "failure", "raised"}

\* the two entries a node appends to tool_errors
ToolEntry(name) == [key |-> "tool", name |-> name]

StepEntry(name) == [key |-> "step", name |-> name]

\* tool_outputs[name] = result
StoreOutput(name, outcome) ==
    [t \in DOMAIN tool_outputs \cup {name} |->
        IF t = name THEN outcome = "success" ELSE tool_outputs[t]]

\* Annotated[list, operator.add]: the graph adds the list a node returns
\* to the list its channel holds. The node returns the state it was given,
\* with the list it appended to in place; the channel holds that same list
\* when the state shares it, and the list as it was before when the state
\* is a copy.
Reduced(returned) ==
    (IF state_passing = "shared" THEN returned ELSE tool_errors) \o returned

\* should_handle_error
ShouldHandleError == Len(tool_errors) > ErrorThreshold

\* the edges of the two graphs
NextNode(w, n) ==
    IF w = "priority_plan"
    THEN CASE n = "parse_intent" -> "get_calendar_data"
           [] n = "get_calendar_data" -> "get_user_tasks"
           [] n = "get_user_tasks" -> "create_priority_plan"
           [] n = "create_priority_plan" -> "should_handle_error"
           [] OTHER -> "END"
    ELSE CASE n = "parse_intent" -> "fetch_project_status"
           [] n = "fetch_project_status" -> "search_stakeholders"
           [] n = "search_stakeholders" -> "compose_email"
           [] n = "compose_email" -> "should_handle_error"
           [] OTHER -> "END"

InitFlow ==
    /\ PlannerInit({<< >>}, {<< >>}, {"null"}, {"calendar"}, {0})
    /\ ToolIdle
    /\ workflow = "none"
    /\ node = "idle"
    /\ state_passing \in {"shared", "copied"}
    /\ tool_errors = << >>
    /\ tool_outputs = [t \in {} |-> TRUE]
    /\ priority_plan = "None"
    /\ final_response = "None"
    /\ should_end = FALSE

\* a node that calls a tool: records is whether a result with success false
\* is appended to tool_errors
ToolNode(name, tool_name, records) ==
    /\ node = name
    /\ \E outcome \in Outcomes :
          LET appended ==
                  IF outcome = "raised" THEN << StepEntry(name) >>
                  ELSE IF outcome = "failure" /\ records THEN << ToolEntry(tool_name) >>
                  ELSE << >>
          IN /\ tool_errors' = Reduced(tool_errors \o appended)
             /\ tool_outputs' = IF outcome = "raised" THEN tool_outputs
                                ELSE StoreOutput(tool_name, outcome)
             /\ priority_plan' = IF name = "create_priority_plan" /\ outcome # "raised"
                                 THEN outcome ELSE priority_plan
    /\ node' = NextNode(workflow, name)
    /\ UNCHANGED << workflow, state_passing, final_response, should_end >>
    /\ UNCHANGED << plannervars, toolvars >>


\* AgentOrchestrator.run: picks the graph and invokes it on the initial state
RunWorkflow ==
    /\ node = "idle"
    /\ workflow = "none"
    /\ \E query \in Queries : workflow' = WorkflowOf(query)
    /\ node' = "parse_intent"
    /\ UNCHANGED << state_passing, tool_errors, tool_outputs, priority_plan,
                    final_response, should_end >>
    /\ UNCHANGED << plannervars, toolvars >>

\* parse_intent: the call of the language model raises or not
ParseIntent ==
    /\ node = "parse_intent"
    /\ \E raised \in BOOLEAN :
          tool_errors' = Reduced(tool_errors \o
              (IF raised THEN << StepEntry("parse_intent") >> ELSE << >>))
    /\ node' = NextNode(workflow, "parse_intent")
    /\ UNCHANGED << workflow, state_passing, tool_outputs, priority_plan,
                    final_response, should_end >>
    /\ UNCHANGED << plannervars, toolvars >>

FetchProjectStatus == ToolNode("fetch_project_status", "get_project_status", TRUE)

SearchStakeholders == ToolNode("search_stakeholders", "knowledge_search", FALSE)

ComposeEmail == ToolNode("compose_email", "compose_email", FALSE)

GetCalendarData == ToolNode("get_calendar_data", "manage_calendar", TRUE)

GetUserTasks == ToolNode("get_user_tasks", "manage_tasks", TRUE)

CreatePriorityPlanNode == ToolNode("create_priority_plan", "create_priority_plan", FALSE)

\* the conditional edge after the last tool node
Route ==
    /\ node = "should_handle_error"
    /\ node' = IF ShouldHandleError THEN "handle_error" ELSE "generate_plan_response"
    /\ UNCHANGED << workflow, state_passing, tool_errors, tool_outputs,
                    priority_plan, final_response, should_end >>
    /\ UNCHANGED << plannervars, toolvars >>

\* generate_plan_response: renders state['priority_plan'], whatever its
\* success; with no plan in the state the lookup raises and the except
\* branch answers
GeneratePlanResponse ==
    /\ node = "generate_plan_response"
    /\ final_response' = IF priority_plan = "None" THEN "plan_response_error"
                         ELSE "daily_priority_plan"
    /\ should_end' = TRUE
    /\ tool_errors' = Reduced(tool_errors)
    /\ node' = "END"
    /\ UNCHANGED << workflow, state_passing, tool_outputs, priority_plan >>
    /\ UNCHANGED << plannervars, toolvars >>

\* handle_error
HandleError ==
    /\ node = "handle_error"
    /\ final_response' = "issues"
    /\ should_end' = TRUE
    /\ tool_errors' = Reduced(tool_errors)
    /\ node' = "END"
    /\ UNCHANGED << workflow, state_passing, tool_outputs, priority_plan >>
    /\ UNCHANGED << plannervars, toolvars >>

NextFlow ==
    \/ RunWorkflow
    \/ ParseIntent
    \/ FetchProjectStatus
    \/ SearchStakeholders
    \/ ComposeEmail
    \/ GetCalendarData
    \/ GetUserTasks
    \/ CreatePriorityPlanNode
    \/ Route
    \/ GeneratePlanResponse
    \/ HandleError

SpecFlow == InitFlow /\ [][NextFlow]_vars

\* the same runs, each node that is enabled eventually taking its step
FairFlow == SpecFlow /\ WF_vars(NextFlow)


\* the entries the nodes appended to tool_errors: each node appends at most
\* one, under its own name, so the distinct entries are the recorded errors
RecordedErrors == {tool_errors[i] : i \in DOMAIN tool_errors}

\* the routing after the last tool node has been decided
Routed == node \in {"generate_plan_response", "handle_error", "END"}

\* C25: the status + email workflow ends by running the status-and-email
\* response generator: after compose_email with at most two recorded errors
\* the final_response is the one generate_email_status_response writes, not
\* one of the daily-plan response generator.
StatusEmailAnsweredByItsGenerator ==
    (/\ workflow = "status_email"
     /\ node = "END"
     /\ Cardinality(RecordedErrors) <= ErrorThreshold)
        => final_response = "project_status_and_email_draft"

\* C29: in the priority-plan workflow every step whose tool call returned
\* success = false has an entry in tool_errors when routing is decided, the
\* create_priority_plan step included, so that a failed planning result is
\* never rendered as a plan with no recorded error.
FailedStepsAreRecorded ==
    (workflow = "priority_plan" /\ (node = "should_handle_error" \/ Routed)) =>
        /\ \A t \in DOMAIN tool_outputs :
              ~ tool_outputs[t] => ToolEntry(t) \in RecordedErrors
        /\ (final_response = "daily_priority_plan" /\ priority_plan = "failure")
              => RecordedErrors # {}

\* C30: a run of the priority-plan workflow that has reached its end has
\* should_end = true and a non-null final_response, and handle_error is the
\* node taken exactly when more than two errors were recorded.
HandleErrorExactlyAboveTwoErrors ==
    workflow = "priority_plan" =>
        /\ node = "END" => should_end /\ final_response # "None"
        /\ Routed => ((node = "handle_error" \/ final_response = "issues")
                        <=> Cardinality(RecordedErrors) > ErrorThreshold)

\* every run of a workflow reaches its end
WorkflowTerminates == <>(node = "END" /\ should_end /\ final_response # "None")

====
